---- MODULE Spec2Model ----
(***************************************************************************)
(* Merchant Portal (src/app.py): one Streamlit script run ("render") per   *)
(* session, top to bottom: login gate, merchant resolution, cached CSV     *)
(* load, schema gate, in-place normalisation, merchant filter, daily       *)
(* aggregation, date-range filter, KPIs / charts / table.                  *)
(*                                                                         *)
(* Values.  A text is a sequence of one-character strings, so that         *)
(* str.strip() and case are computed, not assumed.  A cell that pandas     *)
(* holds as a missing value (NaN / NaT / None) is the empty tuple <<>>,    *)
(* a present value v is <<v>>, and a cell still holding the text read from *)
(* the file is <<"str", text>>.  A timestamp is a number of minutes, a     *)
(* calendar date a number of days.                                         *)
(***************************************************************************)
EXTENDS Integers, Sequences, FiniteSets, TLC

\* ------------------------------------------------------------------ bounds

\* Longest transaction table (rows of the CSV) the file system may hold.
MaxRows == 2

\* Number of clock advances considered (each of TickSeconds).
MaxTicks == 2

\* Number of script runs of one session considered under CacheSpec.
MaxRuns == 2

\* ------------------------------------------------------------- option values

None == <<>>

Some(v) == <<v>>

IsNull(c) == c = <<>>

Str(text) == <<"str", text>>

IsStr(c) == Len(c) = 2

\* ------------------------------------------------------- secrets / users_cfg

M1 == <<"M", "1">>

M1pad == <<" ", "M", "1", " ">>

m1 == <<"m", "1">>

M2 == <<"M", "2">>

\* A merchant cell that read_csv delivers as a missing value (empty, "NA").
NaNKey == <<"NaN">>

\* st.secrets["users"]: merchant_c has no merchant_id key.
users_cfg ==
    [u \in {"merchant_a", "merchant_b", "merchant_c"} |->
        CASE u = "merchant_a" -> [name |-> "Merchant A", merchant_id |-> M1]
          [] u = "merchant_b" -> [name |-> "Merchant B", merchant_id |-> M2]
          [] OTHER -> [name |-> "Merchant C"]]

Usernames == DOMAIN users_cfg

\* users_cfg[username]["merchant_id"] raises KeyError
KeyError(username) ==
    \/ username \notin DOMAIN users_cfg
    \/ "merchant_id" \notin DOMAIN users_cfg[username]

\* ------------------------------------------------------------- the CSV file

paths == << "sample_merchant_transactions.csv",
            "data/sample_merchant_transactions.csv" >>

MerchantCol == "Merchant Number - Business Name"

DateCol == "Transaction Date"

AmountCol == "Settle Amount"

needed == {MerchantCol, DateCol, AmountCol}

\* Position of a required column name in Python's sorted() order of the names.
SortRank(c) ==
    CASE c = MerchantCol -> 1
      [] c = AmountCol -> 2
      [] c = DateCol -> 3

MinutesPerDay == 1440

DateTexts == { "2024-01-01 09:00", "2024-01-01 17:30", "2024-01-02 09:00",
               "2024-01-03 12:00", "not a date" }

AmountTexts == { "100", "50", "N/A" }

NaT == None

NaN == None

\* What pd.to_datetime(errors="coerce") makes of one text.
ParseDate(text) ==
    CASE text = "2024-01-01 09:00" -> Some(1 * MinutesPerDay + 540)
      [] text = "2024-01-01 17:30" -> Some(1 * MinutesPerDay + 1050)
      [] text = "2024-01-02 09:00" -> Some(2 * MinutesPerDay + 540)
      [] text = "2024-01-03 12:00" -> Some(3 * MinutesPerDay + 720)
      [] OTHER -> NaT

\* What pd.to_numeric(errors="coerce") makes of one text.
ParseAmount(text) ==
    CASE text = "100" -> Some(100)
      [] text = "50" -> Some(50)
      [] OTHER -> NaN

\* Rows of the active merchants' own traffic, and rows of other keys.
Rows ==
    { [mkey |-> k, date |-> Str(d), amt |-> Str(a)] :
          k \in {M1, M1pad}, d \in DateTexts, a \in AmountTexts }
    \cup
    { [mkey |-> k, date |-> Str("2024-01-01 09:00"), amt |-> Str("100")] :
          k \in {m1, M2, NaNKey} }

RowSeqs == UNION { [1..n -> Rows] : n \in 0..MaxRows }

\* A cell of a column the file does not have.
NoCell == <<"absent", "absent", "absent">>

Project(r, cols) ==
    [mkey |-> IF MerchantCol \in cols THEN r.mkey ELSE NoCell,
     date |-> IF DateCol \in cols THEN r.date ELSE NoCell,
     amt |-> IF AmountCol \in cols THEN r.amt ELSE NoCell]

SampleRow == [mkey |-> M1, date |-> Str("2024-01-01 09:00"), amt |-> Str("100")]

\* Tables as pd.read_csv returns them: with all three core columns, or with
\* some of them missing.
FullTables == { [columns |-> needed, rows |-> rs] : rs \in RowSeqs }

PartialTables ==
    { [columns |-> cols, rows |-> << Project(SampleRow, cols) >>] :
          cols \in (SUBSET needed) \ {needed} }

Tables == FullTables \cup PartialTables

SampleTable == [columns |-> needed, rows |-> << SampleRow >>]

\* Exceptions pd.read_csv raises for a path.
ReadErrors == { "FileNotFoundError", "ParserError" }

\* What a path holds: a readable table, or the exception reading it raises.
Unreadable(e) == [error |-> e]

IsError(c) == "error" \in DOMAIN c

\* --------------------------------------------------------- load_transactions

\* df["__path__"] = p
WithPath(t, p) ==
    [columns |-> t.columns \cup {"__path__"}, rows |-> t.rows, path |-> p]

RECURSIVE TryPaths(_, _, _, _)
\* The loop of load_transactions from candidate i on: tried is the list of
\* paths pd.read_csv was called on so far, last_err the last exception caught.
TryPaths(fsys, i, last_err, tried) ==
    IF i > Len(paths)
    THEN [raised |-> TRUE, last_err |-> last_err, tried |-> tried]
    ELSE IF ~IsError(fsys[paths[i]])
         THEN [raised |-> FALSE, df |-> WithPath(fsys[paths[i]], paths[i]),
               tried |-> Append(tried, paths[i])]
         ELSE TryPaths(fsys, i + 1, Some(fsys[paths[i]].error),
                       Append(tried, paths[i]))

RECURSIVE TryPathsKeepGoing(_, _, _, _, _)
TryPathsKeepGoing(fsys, i, last_err, tried, found) ==
    IF i > Len(paths)
    THEN IF IsNull(found)
         THEN [raised |-> TRUE, last_err |-> last_err, tried |-> tried]
         ELSE [raised |-> FALSE, df |-> found[1], tried |-> tried]
    ELSE IF ~IsError(fsys[paths[i]])
         THEN TryPathsKeepGoing(fsys, i + 1, last_err, Append(tried, paths[i]),
                                Some(WithPath(fsys[paths[i]], paths[i])))
         ELSE TryPathsKeepGoing(fsys, i + 1, Some(fsys[paths[i]].error),
                                Append(tried, paths[i]), found)

\* A loop that does not return at the first success.
load_transactions_no_return(fsys) == TryPathsKeepGoing(fsys, 1, None, <<>>, None)

\* The body of load_transactions (a cache miss).
load_transactions(fsys) == TryPaths(fsys, 1, None, <<>>)

\* ------------------------------------------------------------- schema gate

\* A check that reports one missing column only.
missing_one(t) ==
    IF needed \subseteq t.columns THEN {}
    ELSE { CHOOSE c \in needed \ t.columns : TRUE }

\* needed - set(tx.columns)
missing(t) == needed \ t.columns

RECURSIVE sorted(_)
\* Python's sorted() of a set of required column names.
sorted(S) ==
    IF S = {} THEN <<>>
    ELSE LET c == CHOOSE x \in S : \A y \in S : SortRank(x) <= SortRank(y)
         IN  <<c>> \o sorted(S \ {c})

\* ------------------------------------------------------------ normalisation

IsSpace(ch) == ch \in {" ", "\t"}

RECURSIVE lstrip(_)
lstrip(s) == IF s # <<>> /\ IsSpace(Head(s)) THEN lstrip(Tail(s)) ELSE s

RECURSIVE rstrip(_)
rstrip(s) ==
    IF s # <<>> /\ IsSpace(s[Len(s)]) THEN rstrip(SubSeq(s, 1, Len(s) - 1)) ELSE s

\* Series.str.strip()
str_strip(s) == rstrip(lstrip(s))

\* Series.astype(str): a missing value becomes the text "nan".
astype_str(c) == IF c = NaNKey THEN <<"n", "a", "n">> ELSE c

\* pd.to_datetime(col, errors="coerce") on one cell (a parsed cell is kept).
to_datetime(c) == IF IsStr(c) THEN ParseDate(c[2]) ELSE c

\* pd.to_numeric(col, errors="coerce") on one cell (a parsed cell is kept).
to_numeric(c) == IF IsStr(c) THEN ParseAmount(c[2]) ELSE c

NormalizeRow(r) ==
    [mkey |-> str_strip(astype_str(r.mkey)),
     date |-> to_datetime(r.date),
     amt |-> to_numeric(r.amt)]

\* Lines 127-131: the three column assignments on tx.
Normalize(t) ==
    [t EXCEPT !.rows = [i \in DOMAIN t.rows |-> NormalizeRow(t.rows[i])]]

\* ---------------------------------------------------------- merchant filter

Lower(ch) == IF ch = "M" THEN "m" ELSE ch

LowerText(s) == [i \in DOMAIN s |-> Lower(s[i])]

\* A comparison that ignores case.
merchant_mask_nocase(r, merchant_id) == LowerText(r.mkey) = LowerText(merchant_id)

\* tx["Merchant Number - Business Name"] == merchant_id, for one row
merchant_mask(r, merchant_id) == r.mkey = merchant_id

\* A gate that never sees an empty frame.
never_empty(m) == FALSE

\* merchant_tx.empty
empty(m) == m = <<>>

\* tx.loc[merchant_mask].copy()
FilterMerchant(t, merchant_id) ==
    SelectSeq(t.rows, LAMBDA r : merchant_mask(r, merchant_id))

\* -------------------------------------------------------- daily aggregation

\* Series.dt.date of one cell: the calendar date, the time of day discarded.
dt_date(c) == IF IsNull(c) THEN NaT ELSE Some(c[1] \div MinutesPerDay)

\* pd.to_datetime of a calendar date: midnight of that date.
date_to_datetime(c) == IF IsNull(c) THEN NaT ELSE Some(c[1] * MinutesPerDay)

RECURSIVE Ascending(_)
\* The numbers of a set, smallest first.
Ascending(S) ==
    IF S = {} THEN <<>>
    ELSE LET x == CHOOSE a \in S : \A b \in S : a <= b
         IN  <<x>> \o Ascending(S \ {x})

\* The group keys of groupby(..., dropna=False): the dates in ascending
\* order, then the missing-date group if some row has no date.
GroupKeys(rows) ==
    LET days == { rows[i].date[1] \div MinutesPerDay :
                      i \in { j \in DOMAIN rows : ~IsNull(rows[j].date) } }
        asc == Ascending(days)
    IN  [i \in DOMAIN asc |-> Some(asc[i])]
        \o (IF \E i \in DOMAIN rows : IsNull(rows[i].date) THEN <<NaT>> ELSE <<>>)

RECURSIVE agg_sum(_)
\* The "sum" aggregation of a group's Settle Amount: missing values skipped.
agg_sum(rows) ==
    IF rows = <<>> THEN 0
    ELSE (IF IsNull(Head(rows).amt) THEN 0 ELSE Head(rows).amt[1])
         + agg_sum(Tail(rows))

\* The "count" aggregation of a group's Settle Amount: the non-missing values.
agg_count(rows) == Len(SelectSeq(rows, LAMBDA r : ~IsNull(r.amt)))

RECURSIVE Gcd(_, _)
Gcd(a, b) == IF b = 0 THEN a ELSE Gcd(b, a % b)

\* The quotient a / b (b > 0) as a fraction in lowest terms.
Quotient(a, b) ==
    LET g == Gcd(IF a < 0 THEN -a ELSE a, b)
    IN  [num |-> a \div g, den |-> b \div g]

\* (daily["revenue"] / daily["orders"]).where(daily["orders"] > 0)
aov_of(revenue, orders) ==
    IF orders > 0 THEN Some(Quotient(revenue, orders)) ELSE NaN

\* Lines 152-161: one row per group key, with date as a timestamp and aov.
groupby_agg(merchant_tx) ==
    LET keys == GroupKeys(merchant_tx)
        group(k) == SelectSeq(merchant_tx, LAMBDA r : dt_date(r.date) = k)
    IN  [i \in DOMAIN keys |->
            LET g == group(keys[i])
            IN  [date |-> date_to_datetime(keys[i]),
                 revenue |-> agg_sum(g),
                 orders |-> agg_count(g),
                 aov |-> aov_of(agg_sum(g), agg_count(g))]]

\* A guard that fires when some date is missing.
isna_any(daily) == \E i \in DOMAIN daily : IsNull(daily[i].date)

\* daily["date"].isna().all()
isna_all(daily) == \A i \in DOMAIN daily : IsNull(daily[i].date)

\* daily.dropna(subset=["date"])
dropna(daily) == SelectSeq(daily, LAMBDA d : ~IsNull(d.date))

RECURSIVE Insert(_, _)
Insert(d, sortedSeq) ==
    IF sortedSeq = <<>> THEN <<d>>
    ELSE IF d.date[1] < Head(sortedSeq).date[1] THEN <<d>> \o sortedSeq
         ELSE <<Head(sortedSeq)>> \o Insert(d, Tail(sortedSeq))

RECURSIVE sort_values(_)
\* daily.sort_values("date") on rows whose date is present.
sort_values(daily) ==
    IF daily = <<>> THEN <<>>
    ELSE Insert(Head(daily), sort_values(Tail(daily)))

\* ------------------------------------------------------- date-range filter

DayOf(d) == d.date[1] \div MinutesPerDay

\* daily["date"].min().date()
min_date(daily) ==
    CHOOSE x \in { DayOf(daily[i]) : i \in DOMAIN daily } :
        \A i \in DOMAIN daily : x <= DayOf(daily[i])

\* daily["date"].max().date()
max_date(daily) ==
    CHOOSE x \in { DayOf(daily[i]) : i \in DOMAIN daily } :
        \A i \in DOMAIN daily : x >= DayOf(daily[i])

\* A filter whose upper bound is exclusive.
filter_range_exclusive(daily, start_date, end_date) ==
    SelectSeq(daily, LAMBDA d : DayOf(d) >= start_date /\ DayOf(d) < end_date)

\* daily[(daily["date"].dt.date >= start_date) & (daily["date"].dt.date <= end_date)]
filter_range(daily, start_date, end_date) ==
    SelectSeq(daily, LAMBDA d : DayOf(d) >= start_date /\ DayOf(d) <= end_date)

\* --------------------------------------------------------------------- KPIs

RECURSIVE SumField(_, _)
SumField(daily, f) ==
    IF daily = <<>> THEN 0 ELSE Head(daily)[f] + SumField(Tail(daily), f)

\* float(daily["revenue"].sum()) if not daily.empty else 0.0
total_rev(daily) == IF daily # <<>> THEN SumField(daily, "revenue") ELSE 0

\* int(daily["orders"].sum()) if not daily.empty else 0
total_orders(daily) == IF daily # <<>> THEN SumField(daily, "orders") ELSE 0

\* The aov of the first row instead of the last.
aov_first(daily) == IF daily # <<>> THEN daily[1].aov ELSE None

\* daily["aov"].iloc[-1] if not daily.empty else None
aov_latest(daily) == IF daily # <<>> THEN daily[Len(daily)].aov ELSE None

\* ------------------------------------------------------------------- state

Sessions == {1, 2}

\* @st.cache_data(ttl=60)
TTL == 60

\* Seconds the clock advances in one step.
TickSeconds == 30

VARIABLES
    fs,           \* path -> the table read_csv returns for it, or its exception
    now,          \* the clock, in seconds
    cache,        \* st.cache_data's entry for load_transactions(), or None
    pc,           \* per session: the next block of the script to run
    runs,         \* per session: script runs started so far
    auth_status,  \* per session: "True", "False" or "None" (do_login)
    username,     \* per session
    merchant_id,  \* per session
    tx,           \* per session: the DataFrame load_transactions returned
    origin,       \* per session: the file contents, as loaded, tx was served from
    tried,        \* per session: the paths its load_transactions call read
    merchant_tx,  \* per session
    daily,        \* per session
    date_range,   \* per session: (start_date, end_date)
    out,          \* per session: the KPIs, charts and table rendered
    msg           \* per session: the message the run stopped with

vars == << fs, now, cache, pc, runs, auth_status, username, merchant_id, tx,
           origin, tried, merchant_tx, daily, date_range, out, msg >>

session_vars == << auth_status, username, merchant_id, tx, origin, tried,
                   merchant_tx, daily, date_range, out, msg >>

Fs(first, second) ==
    [p \in {paths[1], paths[2]} |-> IF p = paths[1] THEN first ELSE second]

\* Tables of at most one row.
SmallTables ==
    PartialTables \cup { t \in FullTables : Len(t.rows) <= 1 /\
                            \A i \in DOMAIN t.rows : t.rows[i].amt = Str("100") }

\* File systems a deployment starts with: the CSV at the repo root, or under
\* data/, or at both places, or at neither.
FsStates ==
    { Fs(t, Unreadable("FileNotFoundError")) : t \in Tables }
    \cup { Fs(Unreadable(e), t) : e \in ReadErrors, t \in SmallTables }
    \cup { Fs(t, SampleTable) : t \in SmallTables }
    \cup { Fs(Unreadable(e1), Unreadable(e2)) : e1 \in ReadErrors, e2 \in ReadErrors }

\* ----------------------------------------------------------------- messages

Message(kind, text, detail) == [kind |-> kind, text |-> text, detail |-> detail]

InvalidCredentials == Message("error", "Invalid credentials", <<>>)

PleaseLogIn == Message("info", "Please log in.", <<>>)

MappingNotFound ==
    Message("error",
            "Merchant mapping not found for this user. Check Secrets configuration.",
            <<>>)

\* raise FileNotFoundError(f"Could not read CSV from {paths}. Last error: {last_err}")
CouldNotRead(last_err) ==
    Message("FileNotFoundError", "Could not read CSV from {paths}. Last error: ",
            last_err)

MissingColumns(cols) ==
    Message("error", "Missing required column(s) in CSV: ", cols)

NoTransactions(mid) ==
    Message("warning", "No transactions found for merchant: ", mid)

AllDatesInvalid ==
    Message("error",
            "All transaction dates are invalid/unparsed. Check the 'Transaction Date' values.",
            <<>>)

\* start_date, end_date = <a tuple of one date>
UnpackError == Message("ValueError", "not enough values to unpack", <<>>)

\* st.error / st.info / st.warning followed by st.stop(), or an uncaught
\* exception: the run of session s ends with message m.
Stop(s, m) ==
    /\ pc' = [pc EXCEPT ![s] = "stopped"]
    /\ msg' = [msg EXCEPT ![s] = Some(m)]

Goto(s, label) ==
    /\ pc' = [pc EXCEPT ![s] = label]
    /\ UNCHANGED msg

\* ------------------------------------------------------------------ actions

NoSession == [s \in Sessions |-> None]

InitSessions ==
    /\ pc = [s \in Sessions |-> "login"]
    /\ runs = [s \in Sessions |-> 1]
    /\ auth_status = [s \in Sessions |-> "None"]
    /\ username = NoSession
    /\ merchant_id = NoSession
    /\ tx = NoSession
    /\ origin = NoSession
    /\ tried = NoSession
    /\ merchant_tx = NoSession
    /\ daily = NoSession
    /\ date_range = NoSession
    /\ out = NoSession
    /\ msg = NoSession

Init ==
    /\ fs \in FsStates
    /\ now = 0
    /\ cache = None
    /\ InitSessions

\* Lines 75-80: do_login() and the two authentication gates.
Login(s) ==
    /\ pc[s] = "login"
    /\ \E status \in {"True", "False", "None"} :
       \E u \in IF status = "True" THEN { Some(n) : n \in Usernames } ELSE { None } :
          /\ auth_status' = [auth_status EXCEPT ![s] = status]
          /\ username' = [username EXCEPT ![s] = u]
          /\ IF status = "False" THEN Stop(s, InvalidCredentials)
             ELSE IF status = "None" THEN Stop(s, PleaseLogIn)
             ELSE Goto(s, "resolve")
    /\ UNCHANGED << fs, now, cache, runs, merchant_id, tx, origin, tried,
                    merchant_tx, daily, date_range, out >>

\* Lines 82-90: merchant_id = users_cfg[username]["merchant_id"].
Resolve(s) ==
    /\ pc[s] = "resolve"
    /\ IF KeyError(username[s][1])
       THEN /\ Stop(s, MappingNotFound)
            /\ UNCHANGED merchant_id
       ELSE /\ merchant_id' =
                 [merchant_id EXCEPT ![s] = Some(users_cfg[username[s][1]].merchant_id)]
            /\ Goto(s, "load")
    /\ UNCHANGED << fs, now, cache, runs, auth_status, username, tx, origin, tried,
                    merchant_tx, daily, date_range, out >>

\* A cache whose callers all hold the one stored object.
cache_shares_object == FALSE

\* st.cache_data stores the pickled return value: a caller's DataFrame is
\* its own object, never the stored one.
cache_data_copies == TRUE

Fresh == ~IsNull(cache) /\ now - cache[1].at < TTL

\* Lines 95-109: tx = load_transactions(), through st.cache_data(ttl=60).
Load(s) ==
    /\ pc[s] = "load"
    /\ IF Fresh
       THEN /\ tx' = [tx EXCEPT ![s] = Some(cache[1].bytes)]
            /\ origin' = [origin EXCEPT ![s] = Some(cache[1].loaded)]
            /\ tried' = [tried EXCEPT ![s] = Some(<<>>)]
            /\ cache' = IF cache_data_copies THEN cache
                        ELSE Some([cache[1] EXCEPT !.aliases = @ \cup {s}])
            /\ Goto(s, "validate")
       ELSE LET r == load_transactions(fs)
            IN  /\ tried' = [tried EXCEPT ![s] = Some(r.tried)]
                /\ IF r.raised
                   THEN /\ Stop(s, CouldNotRead(r.last_err))
                        /\ cache' = None
                        /\ UNCHANGED << tx, origin >>
                   ELSE /\ tx' = [tx EXCEPT ![s] = Some(r.df)]
                        /\ origin' = [origin EXCEPT ![s] = Some(r.df)]
                        /\ cache' = Some([bytes |-> r.df, loaded |-> r.df,
                                          at |-> now,
                                          aliases |-> IF cache_data_copies
                                                      THEN {} ELSE {s}])
                        /\ Goto(s, "validate")
    /\ UNCHANGED << fs, now, runs, auth_status, username, merchant_id,
                    merchant_tx, daily, date_range, out >>

\* Lines 116-124: the schema gate.
Validate(s) ==
    /\ pc[s] = "validate"
    /\ IF missing(tx[s][1]) # {}
       THEN Stop(s, MissingColumns(sorted(missing(tx[s][1]))))
       ELSE Goto(s, "normalize")
    /\ UNCHANGED << fs, now, cache, runs, auth_status, username, merchant_id, tx,
                    origin, tried, merchant_tx, daily, date_range, out >>

\* Lines 126-144: the in-place column assignments on tx, the merchant
\* filter and the empty gate.  Every holder of the same DataFrame object
\* sees the assignments.
FilterToMerchant(s) ==
    /\ pc[s] = "normalize"
    /\ LET t == Normalize(tx[s][1])
           shared == ~IsNull(cache) /\ s \in cache[1].aliases
           m == FilterMerchant(t, merchant_id[s][1])
       IN  /\ tx' = [u \in Sessions |->
                       IF u = s \/ (shared /\ u \in cache[1].aliases)
                       THEN Some(t) ELSE tx[u]]
           /\ cache' = IF shared THEN Some([cache[1] EXCEPT !.bytes = t]) ELSE cache
           /\ merchant_tx' = [merchant_tx EXCEPT ![s] = Some(m)]
           /\ IF empty(m)
              THEN Stop(s, NoTransactions(merchant_id[s][1]))
              ELSE Goto(s, "aggregate")
    /\ UNCHANGED << fs, now, runs, auth_status, username, merchant_id, origin,
                    tried, daily, date_range, out >>

\* Lines 152-168: groupby/agg, aov, the no-valid-dates gate, dropna and sort.
Aggregate(s) ==
    /\ pc[s] = "aggregate"
    /\ LET d == groupby_agg(merchant_tx[s][1])
       IN  IF isna_all(d)
           THEN /\ daily' = [daily EXCEPT ![s] = Some(d)]
                /\ Stop(s, AllDatesInvalid)
           ELSE /\ daily' = [daily EXCEPT ![s] = Some(sort_values(dropna(d)))]
                /\ Goto(s, "date_input")
    /\ UNCHANGED << fs, now, cache, runs, auth_status, username, merchant_id, tx,
                    origin, tried, merchant_tx, date_range, out >>

\* What st.sidebar.date_input can return between min_date and max_date: a
\* pair start <= end, or a single date while the user is still choosing.
Selections(lo, hi) ==
    { <<a, b>> : a \in lo..hi, b \in lo..hi } \cup { <<a>> : a \in lo..hi }

\* Lines 173-181: the sidebar date range and the range filter.
DateInput(s) ==
    /\ pc[s] = "date_input"
    /\ LET d == daily[s][1]
       IN  \E sel \in Selections(min_date(d), max_date(d)) :
              /\ Len(sel) = 2 => sel[1] <= sel[2]
              /\ date_range' = [date_range EXCEPT ![s] = Some(sel)]
              /\ IF Len(sel) = 2
                 THEN /\ daily' = [daily EXCEPT ![s] =
                                      Some(filter_range(d, sel[1], sel[2]))]
                      /\ Goto(s, "kpis")
                 ELSE /\ UNCHANGED daily
                      /\ Stop(s, UnpackError)
    /\ UNCHANGED << fs, now, cache, runs, auth_status, username, merchant_id, tx,
                    origin, tried, merchant_tx, out >>

\* Lines 186-213: caption, the three KPIs, the two charts and the table.
Render(s) ==
    /\ pc[s] = "kpis"
    /\ LET d == daily[s][1]
       IN  out' = [out EXCEPT ![s] = Some(
                     [merchant |-> merchant_id[s][1],
                      source |-> tx[s][1].path,
                      total_rev |-> total_rev(d),
                      total_orders |-> total_orders(d),
                      aov_latest |-> aov_latest(d),
                      line_chart |-> [i \in DOMAIN d |->
                                        [date |-> d[i].date, revenue |-> d[i].revenue,
                                         orders |-> d[i].orders]],
                      bar_chart |-> [i \in DOMAIN d |->
                                       [date |-> d[i].date, aov |-> d[i].aov]],
                      table |-> d])]
    /\ Goto(s, "done")
    /\ UNCHANGED << fs, now, cache, runs, auth_status, username, merchant_id, tx,
                    origin, tried, merchant_tx, daily, date_range >>

\* One block of the script of session s.
Step(s) ==
    \/ Login(s)
    \/ Resolve(s)
    \/ Load(s)
    \/ Validate(s)
    \/ FilterToMerchant(s)
    \/ Aggregate(s)
    \/ DateInput(s)
    \/ Render(s)

\* One render of one session on a freshly started server.
Next == Step(1)

Spec == Init /\ [][Next]_vars

\* ------------------------------------------- two sessions, one server cache

PaddedTable ==
    [columns |-> needed,
     rows |-> << [mkey |-> M1pad, date |-> Str("2024-01-02 09:00"),
                  amt |-> Str("N/A")] >>]

\* Contents the CSV at the repo root takes over time.
CacheFs ==
    { Fs(t, Unreadable("FileNotFoundError")) :
          t \in {SampleTable, PaddedTable} }
    \cup { Fs(Unreadable("ParserError"), Unreadable("FileNotFoundError")) }

InitCache ==
    /\ fs \in CacheFs
    /\ now = 0
    /\ cache = None
    /\ InitSessions

\* Time passes.
Tick ==
    /\ now < MaxTicks * TickSeconds
    /\ now' = now + TickSeconds
    /\ UNCHANGED << fs, cache, pc, runs, session_vars >>

\* The CSV is replaced on disk (the app itself never writes it).
FileChange ==
    /\ fs' \in CacheFs \ {fs}
    /\ UNCHANGED << now, cache, pc, runs, session_vars >>

\* A widget interaction or page reload: Streamlit runs the script again from
\* the top, with fresh script variables.
Rerun(s) ==
    /\ pc[s] \in {"done", "stopped"}
    /\ runs[s] < MaxRuns
    /\ runs' = [runs EXCEPT ![s] = @ + 1]
    /\ pc' = [pc EXCEPT ![s] = "login"]
    /\ auth_status' = [auth_status EXCEPT ![s] = "None"]
    /\ username' = [username EXCEPT ![s] = None]
    /\ merchant_id' = [merchant_id EXCEPT ![s] = None]
    /\ tx' = [tx EXCEPT ![s] = None]
    /\ origin' = [origin EXCEPT ![s] = None]
    /\ tried' = [tried EXCEPT ![s] = None]
    /\ merchant_tx' = [merchant_tx EXCEPT ![s] = None]
    /\ daily' = [daily EXCEPT ![s] = None]
    /\ date_range' = [date_range EXCEPT ![s] = None]
    /\ out' = [out EXCEPT ![s] = None]
    /\ msg' = [msg EXCEPT ![s] = None]
    /\ cache' = IF IsNull(cache) THEN cache
                ELSE Some([cache[1] EXCEPT !.aliases = @ \ {s}])
    /\ UNCHANGED << fs, now >>

\* Renders of two sessions interleaved, reruns, the clock and the file.
NextCache ==
    \/ \E s \in Sessions : Step(s) \/ Rerun(s)
    \/ Tick
    \/ FileChange

CacheSpec == InitCache /\ [][NextCache]_vars

\* ------------------------------------------------------------------ claims

Ran(s) == pc[s] \in {"date_input", "kpis", "done"}

\* key, with leading and trailing whitespace removed, is exactly id.
TrimEq(key, id) ==
    /\ id # <<>>
    /\ ~IsSpace(id[1]) /\ ~IsSpace(id[Len(id)])
    /\ \E a \in 0..Len(key) :
          /\ a + Len(id) <= Len(key)
          /\ \A i \in 1..Len(id) : key[a + i] = id[i]
          /\ \A i \in 1..Len(key) : (i <= a \/ i > a + Len(id)) => key[i] = " "

\* The rows of the file, as loaded, that belong to the session's merchant.
OwnRows(s) ==
    SelectSeq(origin[s][1].rows, LAMBDA r : TrimEq(r.mkey, merchant_id[s][1]))

Unparsable(cell) == cell \in { Str("not a date"), Str("N/A") }

\* The calendar day a date text names (0 for a text that names none).
DayNamed(cell) ==
    CASE cell \in {Str("2024-01-01 09:00"), Str("2024-01-01 17:30")} -> 1
      [] cell = Str("2024-01-02 09:00") -> 2
      [] cell = Str("2024-01-03 12:00") -> 3
      [] OTHER -> 0

AmountNamed(cell) ==
    CASE cell = Str("100") -> 100
      [] cell = Str("50") -> 50
      [] OTHER -> 0

RECURSIVE SumAmounts(_)
SumAmounts(rows) ==
    IF rows = <<>> THEN 0 ELSE AmountNamed(Head(rows).amt) + SumAmounts(Tail(rows))

RowsOn(rows, day) == SelectSeq(rows, LAMBDA r : DayNamed(r.date) = day)

RECURSIVE SumOf(_, _)
SumOf(seq, f) == IF seq = <<>> THEN 0 ELSE Head(seq)[f] + SumOf(Tail(seq), f)

\* C1: every emitted date's orders is the number of the merchant's rows on
\* that date, rows with an unparsable Settle Amount included, its revenue the
\* sum of the parsable amounts of those rows, and the orders of the whole
\* unfiltered aggregate add up to the merchant's rows with a parsable date.
C1_OrdersCountRows ==
    \A s \in Sessions :
        pc[s] = "date_input" =>
            LET d == daily[s][1]
                own == OwnRows(s)
            IN  /\ \A i \in DOMAIN d :
                      /\ d[i].orders = Len(RowsOn(own, DayOf(d[i])))
                      /\ d[i].revenue = SumAmounts(RowsOn(own, DayOf(d[i])))
                /\ SumOf(d, "orders")
                      = Len(SelectSeq(own, LAMBDA r : ~Unparsable(r.date)))

\* C2: every emitted DailyMetric row, before and after the date-range
\* filter, has orders >= 1 and an aov that is present and equal to
\* revenue / orders.
C2_OrdersPositiveAovPresent ==
    \A s \in Sessions :
        Ran(s) =>
            \A i \in DOMAIN daily[s][1] :
                LET r == daily[s][1][i]
                IN  /\ r.orders >= 1
                    /\ ~IsNull(r.aov)
                    /\ r.aov[1].num * r.orders = r.revenue * r.aov[1].den

\* C3: the merchant_id is the one the server-side configuration holds for the
\* authenticated username, and the rows that feed the metrics are exactly the
\* rows of the file whose merchant key, trimmed, equals it case-sensitively.
C3_MerchantIsolation ==
    \A s \in Sessions :
        /\ ~IsNull(merchant_id[s]) =>
              /\ auth_status[s] = "True"
              /\ ~IsNull(username[s])
              /\ username[s][1] \in DOMAIN users_cfg
              /\ merchant_id[s][1] = users_cfg[username[s][1]].merchant_id
        /\ ~IsNull(merchant_tx[s]) =>
              LET own == OwnRows(s)
                  m == merchant_tx[s][1]
              IN  /\ Len(m) = Len(own)
                  /\ \A i \in DOMAIN m :
                        /\ m[i].mkey = merchant_id[s][1]
                        /\ m[i].date = to_datetime(own[i].date)
                        /\ m[i].amt = to_numeric(own[i].amt)
        /\ ~IsNull(out[s]) => out[s][1].merchant = merchant_id[s][1]

\* C3 witness: a render finished for merchant M1 on a file holding a padded
\* " M1 " row, which it counted, and an "m1" row.
C3_Witness ==
    \E s \in Sessions :
        /\ pc[s] = "done"
        /\ merchant_id[s] = Some(M1)
        /\ \E i \in DOMAIN origin[s][1].rows : origin[s][1].rows[i].mkey = M1pad
        /\ \E i \in DOMAIN origin[s][1].rows : origin[s][1].rows[i].mkey = m1
        /\ Len(merchant_tx[s][1]) = 1

StoppedWith(s, m) == pc[s] = "stopped" /\ msg[s] = Some(m)

NothingRendered(s) == IsNull(out[s])

\* C4: the KPIs, charts and table are rendered only in a run that passed
\* every gate, and a run in which a gate's condition fails has stopped at
\* that gate with its message, with nothing rendered and no later stage run.
C4_ErrorsAreTerminal ==
    \A s \in Sessions :
        /\ ~NothingRendered(s) =>
              /\ auth_status[s] = "True"
              /\ ~KeyError(username[s][1])
              /\ ~IsNull(tx[s])
              /\ needed \subseteq origin[s][1].columns
              /\ OwnRows(s) # <<>>
              /\ \E i \in DOMAIN OwnRows(s) : ~Unparsable(OwnRows(s)[i].date)
              /\ IsNull(msg[s])
        /\ pc[s] = "stopped" => NothingRendered(s) /\ ~IsNull(msg[s])
        /\ (pc[s] # "login" /\ auth_status[s] = "False") =>
              /\ StoppedWith(s, InvalidCredentials)
              /\ IsNull(merchant_id[s]) /\ IsNull(tx[s]) /\ IsNull(tried[s])
        /\ (pc[s] # "login" /\ auth_status[s] = "None") =>
              /\ StoppedWith(s, PleaseLogIn)
              /\ IsNull(merchant_id[s]) /\ IsNull(tx[s]) /\ IsNull(tried[s])
        /\ (pc[s] \notin {"login", "resolve"} /\ auth_status[s] = "True"
               /\ KeyError(username[s][1])) =>
              /\ StoppedWith(s, MappingNotFound)
              /\ IsNull(merchant_id[s]) /\ IsNull(tx[s]) /\ IsNull(tried[s])
        /\ (~IsNull(tried[s]) /\ IsNull(tx[s])) =>
              /\ pc[s] = "stopped" /\ msg[s][1].kind = "FileNotFoundError"
              /\ IsNull(merchant_tx[s]) /\ IsNull(daily[s])
        /\ (~IsNull(tx[s]) /\ pc[s] # "validate"
               /\ ~(needed \subseteq origin[s][1].columns)) =>
              /\ pc[s] = "stopped" /\ msg[s][1].kind = "error"
              /\ tx[s] = origin[s]
              /\ IsNull(merchant_tx[s]) /\ IsNull(daily[s])
        /\ (~IsNull(merchant_tx[s]) /\ merchant_tx[s][1] = <<>>) =>
              /\ StoppedWith(s, NoTransactions(merchant_id[s][1]))
              /\ IsNull(daily[s]) /\ IsNull(date_range[s])
        /\ (~IsNull(daily[s]) /\ ~Ran(s) /\ IsNull(date_range[s])) =>
              /\ StoppedWith(s, AllDatesInvalid)
              /\ NothingRendered(s)

\* C4 witness: a run stopped at the empty-merchant gate, after the schema
\* gate passed, with nothing rendered.
C4_Witness ==
    \E s \in Sessions :
        /\ pc[s] = "stopped"
        /\ msg[s] = Some(NoTransactions(M2))
        /\ Len(origin[s][1].rows) = 2
        /\ NothingRendered(s)

\* C5: a merchant row with an unparsable Transaction Date is in no emitted
\* DailyMetric and no emitted row has an absent date; the no-valid-dates
\* error is raised exactly when every matching row's date is unparsable, and
\* otherwise the rows with valid dates are aggregated and emitted.
C5_UnparsableDatesDropped ==
    \A s \in Sessions :
        ~IsNull(daily[s]) =>
            LET own == OwnRows(s)
                valid == SelectSeq(own, LAMBDA r : ~Unparsable(r.date))
                d == daily[s][1]
            IN  /\ StoppedWith(s, AllDatesInvalid) <=> valid = <<>>
                /\ valid # <<>> => (Ran(s) \/ StoppedWith(s, UnpackError))
                /\ pc[s] = "date_input" =>
                      /\ \A i \in DOMAIN d : ~IsNull(d[i].date)
                      /\ { DayOf(d[i]) : i \in DOMAIN d }
                            = { DayNamed(valid[j].date) : j \in DOMAIN valid }
                      /\ SumOf(d, "revenue") = SumAmounts(valid)
                      /\ SumOf(d, "orders") <= Len(valid)

\* C5 witness: an aggregate emitted from merchant rows of which one has an
\* unparsable date and one a valid date.
C5_Witness ==
    \E s \in Sessions :
        /\ pc[s] = "date_input"
        /\ \E i \in DOMAIN OwnRows(s) : Unparsable(OwnRows(s)[i].date)
        /\ Len(daily[s][1]) = 1

\* C6: load_transactions reads the candidate paths in list order, returns the
\* table of the first path that reads, reads no later path, and raises only
\* when every path fails, with the error of the last path tried.
C6_FirstReadablePath ==
    \A s \in Sessions :
        (~IsNull(tried[s]) /\ tried[s][1] # <<>>) =>
            LET t == tried[s][1]
                n == Len(t)
            IN  /\ n <= Len(paths)
                /\ \A k \in 1..n : t[k] = paths[k]
                /\ \A k \in 1..(n - 1) : IsError(fs[t[k]])
                /\ IF \E k \in 1..Len(paths) : ~IsError(fs[paths[k]])
                   THEN /\ ~IsError(fs[t[n]])
                        /\ ~IsNull(origin[s])
                        /\ origin[s][1].rows = fs[t[n]].rows
                        /\ origin[s][1].path = t[n]
                        /\ origin[s][1].columns = fs[t[n]].columns \cup {"__path__"}
                   ELSE /\ n = Len(paths)
                        /\ IsNull(tx[s])
                        /\ pc[s] = "stopped"
                        /\ msg[s][1].kind = "FileNotFoundError"
                        /\ msg[s][1].detail = << fs[paths[Len(paths)]].error >>

\* C6 witness: the first path failed and the table of the second was returned.
C6_Witness ==
    \E s \in Sessions :
        /\ tried[s] = Some(paths)
        /\ ~IsNull(tx[s])
        /\ origin[s][1].path = paths[2]

\* The rows of d whose day lies in [a, b], in d's order.
InRange(d, a, b) == { i \in DOMAIN d : a <= DayOf(d[i]) /\ DayOf(d[i]) <= b }

IsSelection(d, sub, keep) ==
    /\ Len(sub) = Cardinality(keep)
    /\ \A i \in keep : sub[Cardinality({ j \in keep : j <= i })] = d[i]

\* C7: the range filter leaves exactly the daily rows with
\* start_date <= date <= end_date, in their order, for every pair of bounds
\* in the data's span (an empty result is no error); filtering the result
\* again changes nothing, and the default bounds keep every row.
C7_RangeFilter ==
    [][ \A s \in Sessions :
          (pc[s] = "date_input" /\ pc'[s] = "kpis") =>
              LET d == daily[s][1]
                  sub == daily'[s][1]
                  a == date_range'[s][1][1]
                  b == date_range'[s][1][2]
              IN  /\ IsSelection(d, sub, InRange(d, a, b))
                  /\ filter_range(sub, a, b) = sub
                  /\ (a = min_date(d) /\ b = max_date(d)) => sub = d
                  /\ IsNull(msg'[s]) ]_vars

\* C7 witness: a range inside the data's span that selects no row.
C7_Witness ==
    \E s \in Sessions :
        /\ pc[s] = "kpis"
        /\ date_range[s] = Some(<<2, 2>>)
        /\ daily[s] = Some(<<>>)

\* C8: the emitted rows are in strictly ascending date order (so their dates
\* are pairwise distinct); total_revenue and total_orders are the sums over
\* the range-filtered rows (0 when empty) and latest_aov is the aov of the
\* row with the greatest date, or absent when there is none.
C8_OrderAndSummaries ==
    \A s \in Sessions :
        /\ Ran(s) =>
              \A i \in DOMAIN daily[s][1] : \A j \in DOMAIN daily[s][1] :
                  i < j => daily[s][1][i].date[1] < daily[s][1][j].date[1]
        /\ pc[s] = "done" =>
              LET d == daily[s][1]
                  k == out[s][1]
              IN  /\ k.total_rev = SumOf(d, "revenue")
                  /\ k.total_orders = SumOf(d, "orders")
                  /\ k.table = d
                  /\ d = <<>> => IsNull(k.aov_latest)
                  /\ \A i \in DOMAIN d :
                        (\A j \in DOMAIN d : d[j].date[1] <= d[i].date[1])
                            => k.aov_latest = d[i].aov

\* C8 witness: a finished render over two dates whose aov differ.
C8_Witness ==
    \E s \in Sessions :
        /\ pc[s] = "done"
        /\ Len(daily[s][1]) = 2
        /\ daily[s][1][1].aov # daily[s][1][2].aov
        /\ ~IsNull(daily[s][1][2].aov)

\* C9: the schema gate fails exactly when a required column is absent; its
\* message lists every missing required column once, in sorted order, and
\* the rows have not been parsed, trimmed or filtered when it fails.
C9_SchemaGate ==
    \A s \in Sessions :
        (~IsNull(tx[s]) /\ pc[s] # "validate") =>
            LET absent == needed \ origin[s][1].columns
                failed == /\ pc[s] = "stopped"
                          /\ msg[s][1].text = "Missing required column(s) in CSV: "
            IN  /\ failed <=> absent # {}
                /\ failed =>
                      LET listed == msg[s][1].detail
                      IN  /\ msg[s][1].kind = "error"
                          /\ { listed[i] : i \in DOMAIN listed } = absent
                          /\ \A i \in DOMAIN listed : \A j \in DOMAIN listed :
                                i < j => SortRank(listed[i]) < SortRank(listed[j])
                          /\ tx[s] = origin[s]
                          /\ IsNull(merchant_tx[s])
                          /\ IsNull(daily[s])

\* C9 witness: the gate failed on a file missing two required columns.
C9_Witness ==
    \E s \in Sessions :
        /\ pc[s] = "stopped"
        /\ msg[s] = Some(MissingColumns(<<AmountCol, DateCol>>))
        /\ Len(tx[s][1].rows) = 1

\* What a render shows is a function of the file contents as loaded, the
\* merchant and the date range.
Pipeline(t, mid, range) ==
    filter_range(
        sort_values(dropna(groupby_agg(FilterMerchant(Normalize(t), mid)))),
        range[1], range[2])

\* C10: the cached table is never changed by a render: the table every
\* render receives from load_transactions is the file contents as loaded,
\* whatever other renders served from the same entry did to theirs, and what
\* a render shows depends on those contents, its merchant and its range only.
C10_CacheImmutable ==
    /\ ~IsNull(cache) => cache[1].bytes = cache[1].loaded
    /\ \A s \in Sessions :
          /\ pc[s] = "validate" => tx[s] = origin[s]
          /\ pc[s] = "done" =>
                out[s][1].table
                    = Pipeline(origin[s][1], merchant_id[s][1], date_range[s][1])

\* C10 witness: a render is handed the cached table (no file was read for
\* it) while another render served from the same entry has already coerced
\* and trimmed its own table in place.
C10_Witness ==
    \E s \in Sessions : \E u \in Sessions \ {s} :
        /\ pc[s] = "validate"
        /\ tried[s] = Some(<<>>)
        /\ pc[u] \in {"aggregate", "date_input", "kpis", "done"}
        /\ origin[u] = origin[s]
        /\ tx[u] # origin[u]
        /\ ~IsNull(cache) /\ cache[1].loaded = origin[s][1]

====
